---- MODULE Spec2Model ----
(***************************************************************************)
(* Model of the LaTeX rewriting utilities under scripts/:                  *)
(*   convert_verses.py     brace-aware scanner for \Verse[ref]{SA}{EN}     *)
(*   add_labels_to_secs.py label injection with a project-wide label set   *)
(*   convert_footnotes.py  \footnotemark / \footnotetext hoisting          *)
(* A text is a sequence of one-character strings.  Python offsets are      *)
(* 0-based; At and Slice translate them.  A fixed literal that a formatter *)
(* emits (for instance \begin{verse}) is written as one element of the     *)
(* output sequence.                                                        *)
(***************************************************************************)
EXTENDS Integers, Sequences, FiniteSets, TLC

VARIABLES
    \* convert_verses.convert_content: input, cursor, count, output,
    \* control ("idle", "scan", "done", "raised"), loop iterations so far
    tex, i, n, out, pc, iters,
    \* one call of parse_braced_arg: arguments and result
    arg_s, arg_i, arg_ret,
    \* format_verse_block on one translation: bracket reference, English
    \* argument, normalize_english's result, the result of
    \* append_ref_to_translation, of applying it again, and the stage reached
    v_ref, v_en, v_norm, v_once, v_twice, v_stage,
    \* add_labels_to_secs.main: the documents under ROOT, the shared set,
    \* the next document, the labels inserted so far, the set as collected
    \* before the first document was processed, control
    docs, used_labels, doc_idx, inserted_labels, collected, lab_pc,
    \* the per-file loop of a utility's main: which utility, the files, the
    \* next file, the files whose iteration completed, the files reported as
    \* skipped, control ("idle", "loop", "done", "crashed")
    util, files, f_idx, handled, skipped, main_pc,
    \* convert_footnotes.convert: input, cursor, output parts joined,
    \* Counter.idx of the latest block, the blocks handled so far, control
    ftex, fi, fout, counter_idx, fblocks, fpc

verseVars == <<tex, i, n, out, pc, iters>>

braceVars == <<arg_s, arg_i, arg_ret>>

refVars == <<v_ref, v_en, v_norm, v_once, v_twice, v_stage>>

labelVars == <<docs, used_labels, doc_idx, inserted_labels, collected, lab_pc>>

fileVars == <<util, files, f_idx, handled, skipped, main_pc>>

footVars == <<ftex, fi, fout, counter_idx, fblocks, fpc>>

vars == <<verseVars, braceVars, refVars, labelVars, fileVars, footVars>>

nonVerse == <<braceVars, refVars, labelVars, fileVars, footVars>>

nonBrace == <<verseVars, refVars, labelVars, fileVars, footVars>>

nonRef == <<verseVars, braceVars, labelVars, fileVars, footVars>>

nonLabel == <<verseVars, braceVars, refVars, fileVars, footVars>>

nonFile == <<verseVars, braceVars, refVars, labelVars, footVars>>

nonFoot == <<verseVars, braceVars, refVars, labelVars, fileVars>>

(* ---------------- bounds ---------------- *)

MaxLen == 3

(* ---------------- text helpers ---------------- *)

\* s[k] with a Python (0-based) offset
At(s, k) == s[k + 1]

\* s[a:b] for 0 <= a, b; clipped like a Python slice
Slice(s, a, b) ==
    LET hi == IF b > Len(s) THEN Len(s) ELSE b
    IN IF a >= hi THEN << >> ELSE SubSeq(s, a + 1, hi)

\* s.startswith(pat, k)
StartsWith(s, pat, k) ==
    /\ k + Len(pat) <= Len(s)
    /\ SubSeq(s, k + 1, k + Len(pat)) = pat

\* str.isspace() on the characters of the modelled alphabet
IsSpace(ch) == ch \in {" ", "\n"}

\* s.find(ch, from): least offset >= from holding ch, or -1
RECURSIVE Find(_, _, _)
Find(s, ch, from) ==
    IF from >= Len(s) THEN -1
    ELSE IF At(s, from) = ch THEN from
    ELSE Find(s, ch, from + 1)

\* all sequences over S of length exactly k / at most k
RECURSIVE SeqsOfLen(_, _)
SeqsOfLen(S, k) ==
    IF k = 0 THEN { << >> }
    ELSE { <<c>> \o r : c \in S, r \in SeqsOfLen(S, k - 1) }

SeqsUpTo(S, k) == UNION { SeqsOfLen(S, m) : m \in 0..k }

(* ---------------- convert_verses.py: parsing ---------------- *)

MacroName == <<"\\", "V", "e", "r", "s", "e">>

\* mutant of skip_ws: a skipper that also passes over '%' comments
RECURSIVE skip_ws_and_comments(_, _)
skip_ws_and_comments(s, k) ==
    IF k >= Len(s) THEN k
    ELSE IF IsSpace(At(s, k)) THEN skip_ws_and_comments(s, k + 1)
    ELSE IF At(s, k) = "%"
         THEN IF Find(s, "\n", k) = -1 THEN Len(s)
              ELSE skip_ws_and_comments(s, Find(s, "\n", k) + 1)
    ELSE k

\* skip_ws(s, i): advance over whitespace only
RECURSIVE skip_ws(_, _)
skip_ws(s, k) ==
    IF k < Len(s) /\ IsSpace(At(s, k)) THEN skip_ws(s, k + 1) ELSE k

\* parse_optional_bracket(s, i).  present = FALSE is Python's None;
\* raised = TRUE is the ValueError for an unclosed '['.
parse_optional_bracket(s, k) ==
    IF k >= Len(s) \/ At(s, k) # "["
    THEN [raised |-> FALSE, present |-> FALSE, val |-> << >>, next |-> k]
    ELSE LET j == Find(s, "]", k + 1)
         IN IF j = -1
            THEN [raised |-> TRUE, present |-> FALSE, val |-> << >>, next |-> k]
            ELSE [raised |-> FALSE, present |-> TRUE,
                  val |-> Slice(s, k + 1, j), next |-> j + 1]

\* mutant of BracedLoop: the group ends at the first closing brace
RECURSIVE BracedLoopFlat(_, _, _, _)
BracedLoopFlat(s, k, j, depth) ==
    IF j >= Len(s)
    THEN [raised |-> TRUE, val |-> << >>, next |-> k]
    ELSE IF At(s, j) = "}"
         THEN [raised |-> FALSE, val |-> Slice(s, k + 1, j), next |-> j + 1]
    ELSE BracedLoopFlat(s, k, j + 1, depth)

\* the while loop of parse_braced_arg: cursor j, nesting depth
RECURSIVE BracedLoop(_, _, _, _)
BracedLoop(s, k, j, depth) ==
    IF j >= Len(s)
    THEN [raised |-> TRUE, val |-> << >>, next |-> k]
    ELSE IF At(s, j) = "{" THEN BracedLoop(s, k, j + 1, depth + 1)
    ELSE IF At(s, j) = "}"
         THEN IF depth - 1 = 0
              THEN [raised |-> FALSE, val |-> Slice(s, k + 1, j), next |-> j + 1]
              ELSE BracedLoop(s, k, j + 1, depth - 1)
    ELSE BracedLoop(s, k, j + 1, depth)

\* parse_braced_arg(s, i)
parse_braced_arg(s, k) ==
    IF k >= Len(s) \/ At(s, k) # "{"
    THEN [raised |-> TRUE, val |-> << >>, next |-> k]
    ELSE BracedLoop(s, k, k, 0)

(* ---------------- convert_verses.py: formatting ---------------- *)

\* str.strip()
RECURSIVE RStrip(_)
RStrip(s) ==
    IF s # << >> /\ IsSpace(s[Len(s)]) THEN RStrip(SubSeq(s, 1, Len(s) - 1)) ELSE s

Strip(s) == RStrip(Slice(s, skip_ws(s, 0), Len(s)))

\* HSPACE_CMD_RE anchored at offset k: \hspace, optional *, '{', [^}]*, '}'.
\* The command name \hspace is one element.  Offset after the match, or -1.
HspaceEnd(s, k) ==
    IF k >= Len(s) \/ At(s, k) # "\\hspace" THEN -1
    ELSE LET k1 == IF k + 1 < Len(s) /\ At(s, k + 1) = "*" THEN k + 2 ELSE k + 1
         IN IF k1 >= Len(s) \/ At(s, k1) # "{" THEN -1
            ELSE LET j == Find(s, "}", k1 + 1)
                 IN IF j = -1 THEN -1 ELSE j + 1

\* strip_all_hspace(s): HSPACE_CMD_RE.sub("", s)
RECURSIVE StripHspaceFrom(_, _)
StripHspaceFrom(s, k) ==
    IF k >= Len(s) THEN << >>
    ELSE IF HspaceEnd(s, k) # -1 THEN StripHspaceFrom(s, HspaceEnd(s, k))
    ELSE <<At(s, k)>> \o StripHspaceFrom(s, k + 1)

strip_all_hspace(s) == StripHspaceFrom(s, 0)

\* LEADING_HSPACE_RE (^\s* \hspace... \s*): offset after the match, or -1
LeadingHspaceEnd(s) ==
    LET e == HspaceEnd(s, skip_ws(s, 0))
    IN IF e = -1 THEN -1 ELSE skip_ws(s, e)

had_leading_hspace(s) == LeadingHspaceEnd(s) # -1

\* the regex \s*\\\\\s* (a LaTeX line break with the whitespace around it)
\* anchored at offset k: offset after the match, or -1
LinebreakEnd(s, k) ==
    LET w == skip_ws(s, k)
    IN IF StartsWith(s, <<"\\", "\\">>, w) THEN skip_ws(s, w + 2) ELSE -1

\* re.split(r"\s*\\\\\s*", s): cur is the part being collected
RECURSIVE SplitLinebreaks(_, _, _)
SplitLinebreaks(s, k, cur) ==
    IF k >= Len(s) THEN <<cur>>
    ELSE IF LinebreakEnd(s, k) # -1
         THEN <<cur>> \o SplitLinebreaks(s, LinebreakEnd(s, k), << >>)
    ELSE SplitLinebreaks(s, k + 1, Append(cur, At(s, k)))

\* split_latex_lines(sa): stripped, non-empty parts
split_latex_lines(sa) ==
    LET parts == SplitLinebreaks(Strip(sa), 0, << >>)
        keep(p) == Strip(p) # << >>
    IN [k \in 1..Len(SelectSeq(parts, keep)) |-> Strip(SelectSeq(parts, keep)[k])]

\* " \\\\\n".join(wrapped)
RECURSIVE JoinLines(_)
JoinLines(ls) ==
    IF ls = << >> THEN << >>
    ELSE IF Len(ls) = 1 THEN Head(ls)
    ELSE Head(ls) \o <<" ", "\\", "\\", "\n">> \o JoinLines(Tail(ls))

\* sa_to_verse_body(sa)
sa_to_verse_body(sa) ==
    LET lines == split_latex_lines(strip_all_hspace(sa))
        wrapped == [k \in 1..Len(lines) |-> <<"\\textit{">> \o lines[k] \o <<"}">>]
    IN JoinLines(wrapped)

\* re.sub(r"\s*\\\\\s*", " ", en)
RECURSIVE ReplaceLinebreaks(_, _)
ReplaceLinebreaks(s, k) ==
    IF k >= Len(s) THEN << >>
    ELSE IF LinebreakEnd(s, k) # -1
         THEN <<" ">> \o ReplaceLinebreaks(s, LinebreakEnd(s, k))
    ELSE <<At(s, k)>> \o ReplaceLinebreaks(s, k + 1)

\* re.sub(r"\s+", " ", en)
RECURSIVE CollapseWs(_, _)
CollapseWs(s, k) ==
    IF k >= Len(s) THEN << >>
    ELSE IF IsSpace(At(s, k)) THEN <<" ">> \o CollapseWs(s, skip_ws(s, k))
    ELSE <<At(s, k)>> \o CollapseWs(s, k + 1)

IsVerb(ch) == ch \in {"said", "says"}

\* SPEAKER_LINE_RE with who = s[0:a]: \s+ verb \s* : \s+ rest, rest non-empty.
\* The verbs said / says are one element each.
SpeakerAt(s, a) ==
    LET w == skip_ws(s, a)
        c == skip_ws(s, w + 1)
        r == skip_ws(s, c + 1)
    IN /\ a >= 1 /\ a < Len(s) /\ IsSpace(At(s, a))
       /\ w < Len(s) /\ IsVerb(At(s, w))
       /\ c < Len(s) /\ At(s, c) = ":"
       /\ c + 1 < Len(s) /\ IsSpace(At(s, c + 1))
       /\ r < Len(s)

\* the rewrite normalize_english makes when SPEAKER_LINE_RE matches;
\* who is lazy (.+?), so a is the least offset that matches
SpeakerBreak(s) ==
    IF \E a \in 1..Len(s) : SpeakerAt(s, a)
    THEN LET a == CHOOSE a \in 1..Len(s) :
                      SpeakerAt(s, a) /\ \A b \in 1..(a - 1) : ~SpeakerAt(s, b)
             w == skip_ws(s, a)
             r == skip_ws(s, skip_ws(s, w + 1) + 1)
         IN Strip(Slice(s, 0, a)) \o <<" ", At(s, w), ":", "\\linebreak", " ">>
                \o Strip(Slice(s, r, Len(s)))
    ELSE s

INDENT_LATEX == <<"\\quad", " ">>

\* normalize_english(en)
normalize_english(en) ==
    LET indent == IF had_leading_hspace(en) THEN INDENT_LATEX ELSE << >>
        e1 == IF had_leading_hspace(en)
              THEN Slice(en, LeadingHspaceEnd(en), Len(en)) ELSE en
        e2 == strip_all_hspace(e1)
        e3 == ReplaceLinebreaks(e2, 0)
        e4 == Strip(CollapseWs(e3, 0))
    IN indent \o SpeakerBreak(e4)

IsDigit(ch) == ch \in {"1", "2"}

\* [\d]+(?:\.[\d]+)? matching exactly s[a:b]
IsRefNumber(s, a, b) ==
    /\ a < b
    /\ \/ \A k \in a..(b - 1) : IsDigit(At(s, k))
       \/ \E d \in (a + 1)..(b - 2) :
             /\ At(s, d) = "."
             /\ \A k \in (a..(b - 1)) \ {d} : IsDigit(At(s, k))

\* number, optionally a dash and a second number, matching exactly s[a:b];
\* the en dash of the character class [..-] is the element "endash"
IsRefRange(s, a, b) ==
    \/ IsRefNumber(s, a, b)
    \/ \E d \in (a + 1)..(b - 2) :
          /\ At(s, d) \in {"-", "endash"}
          /\ IsRefNumber(s, a, d)
          /\ IsRefNumber(s, d + 1, b)

\* the re.search of append_ref_to_translation:
\* \( \s* range \s* \) \s* $
EndsWithRefLike(s) ==
    \E o \in 0..(Len(s) - 1), c \in 0..(Len(s) - 1) :
        /\ o < c
        /\ At(s, o) = "(" /\ At(s, c) = ")"
        /\ skip_ws(s, c + 1) = Len(s)
        /\ \E a \in (o + 1)..c, b \in (o + 1)..c :
              /\ IsRefRange(s, a, b)
              /\ \A k \in ((o + 1)..(a - 1)) \cup (b..(c - 1)) : IsSpace(At(s, k))

\* mutant of append_ref_to_translation: no check for a reference already there
append_ref_always(en_body, ref) ==
    IF Strip(ref) = << >> THEN en_body
    ELSE en_body \o <<" ", "(">> \o Strip(ref) \o <<")">>

\* append_ref_to_translation(en_body, ref)
append_ref_to_translation(en_body, ref) ==
    IF Strip(ref) = << >> THEN en_body
    ELSE IF EndsWithRefLike(en_body) THEN en_body
    ELSE en_body \o <<" ", "(">> \o Strip(ref) \o <<")">>

\* format_verse_block(ref, sa, en); ref is << >> for None
format_verse_block(ref, sa, en) ==
    <<"\n", "\\par", "\n", "\\begin{verse}", "\n">>
        \o sa_to_verse_body(sa)
        \o <<"\n", "\n", "\\noindent", " ">>
        \o append_ref_to_translation(normalize_english(en), Strip(ref))
        \o <<"\n", "\\end{verse}", "\n", "\\par", "\n">>

(* ---------------- convert_verses.py: convert_content ---------------- *)

\* One attempt of convert_content to read an invocation at offset p, where
\* tex.startswith("\Verse", p).  kind is the branch the code leaves by:
\*   "notverse"  first check fails  (# Not a real Verse invocation)
\*   "malformed" second check fails (# malformed; copy literally)
\*   "raised"    parse_optional_bracket or parse_braced_arg raised ValueError
\*   "converted" both arguments parsed; end is the offset after the second
ParseVerse(t, p) ==
    LET j0 == skip_ws(t, p + Len(MacroName))
        hasBr == j0 < Len(t) /\ At(t, j0) = "["
        br == parse_optional_bracket(t, j0)
        j1 == IF hasBr THEN skip_ws(t, br.next) ELSE j0
        ref == IF hasBr THEN br.val ELSE << >>
        a1 == parse_braced_arg(t, j1)
        j2 == skip_ws(t, a1.next)
        a2 == parse_braced_arg(t, j2)
        none == [kind |-> "none", ref |-> << >>, sa |-> << >>, en |-> << >>, end |-> p]
    IN IF hasBr /\ br.raised THEN [none EXCEPT !.kind = "raised"]
       ELSE IF j1 >= Len(t) \/ At(t, j1) # "{" THEN [none EXCEPT !.kind = "notverse"]
       ELSE IF a1.raised THEN [none EXCEPT !.kind = "raised"]
       ELSE IF j2 >= Len(t) \/ At(t, j2) # "{" THEN [none EXCEPT !.kind = "malformed"]
       ELSE IF a2.raised THEN [none EXCEPT !.kind = "raised"]
       ELSE [kind |-> "converted", ref |-> ref, sa |-> a1.val, en |-> a2.val,
             end |-> a2.next]

AtMacro == StartsWith(tex, MacroName, i)

\* mutant of LiteralCopy: the cursor is not advanced
LiteralCopyStuck ==
    /\ out' = Append(out, At(tex, i))
    /\ i' = i
    /\ iters' = iters + 1
    /\ UNCHANGED <<tex, n, pc>>
    /\ UNCHANGED nonVerse

\* mutant of LiteralCopy: whitespace is not copied
LiteralCopyDropSpace ==
    /\ out' = IF IsSpace(At(tex, i)) THEN out ELSE Append(out, At(tex, i))
    /\ i' = i + 1
    /\ iters' = iters + 1
    /\ UNCHANGED <<tex, n, pc>>
    /\ UNCHANGED nonVerse

\* out.append(tex[i]); i += 1   (the three literal-copy sites share this)
LiteralCopy ==
    /\ out' = Append(out, At(tex, i))
    /\ i' = i + 1
    /\ iters' = iters + 1
    /\ UNCHANGED <<tex, n, pc>>
    /\ UNCHANGED nonVerse

\* convert_content lines 218-219: no macro name at i
CopyLiteral ==
    /\ pc = "scan" /\ i < Len(tex)
    /\ ~AtMacro
    /\ LiteralCopy

\* convert_content lines 196-200
VerseNotInvocation ==
    /\ pc = "scan" /\ i < Len(tex)
    /\ AtMacro /\ ParseVerse(tex, i).kind = "notverse"
    /\ LiteralCopy

\* mutant of VerseMalformed: the first argument is consumed with the name
VerseMalformedConsume ==
    /\ pc = "scan" /\ i < Len(tex)
    /\ AtMacro /\ ParseVerse(tex, i).kind = "malformed"
    /\ LET j == skip_ws(tex, i + Len(MacroName))
       IN /\ out' = out \o Slice(tex, i, j)
          /\ i' = j
    /\ iters' = iters + 1
    /\ UNCHANGED <<tex, n, pc>>
    /\ UNCHANGED nonVerse

\* convert_content lines 205-209
VerseMalformed ==
    /\ pc = "scan" /\ i < Len(tex)
    /\ AtMacro /\ ParseVerse(tex, i).kind = "malformed"
    /\ LiteralCopy

\* convert_content lines 211-216
VerseConvert ==
    /\ pc = "scan" /\ i < Len(tex)
    /\ AtMacro /\ ParseVerse(tex, i).kind = "converted"
    /\ LET v == ParseVerse(tex, i)
       IN /\ out' = out \o format_verse_block(v.ref, v.sa, v.en)
          /\ i' = v.end
    /\ n' = n + 1
    /\ iters' = iters + 1
    /\ UNCHANGED <<tex, pc>>
    /\ UNCHANGED nonVerse

\* a ValueError raised at line 192, 202 or 211 is not caught in
\* convert_content: the call ends without returning
VerseRaise ==
    /\ pc = "scan" /\ i < Len(tex)
    /\ AtMacro /\ ParseVerse(tex, i).kind = "raised"
    /\ pc' = "raised"
    /\ iters' = iters + 1
    /\ UNCHANGED <<tex, i, n, out>>
    /\ UNCHANGED nonVerse

\* line 221: the loop condition fails, return "".join(out), n
ReturnContent ==
    /\ pc = "scan" /\ i >= Len(tex)
    /\ pc' = "done"
    /\ UNCHANGED <<tex, i, n, out, iters>>
    /\ UNCHANGED nonVerse

(* ---- inputs of convert_content ---- *)

RawAlphabet == {"\\", "{", "}", "[", "]", " ", "%", "1"}

RawTexts == SeqsUpTo(RawAlphabet, MaxLen)

Seps == { << >>, <<" ">>, <<"%", "\n">>, <<" ", "%", "1", "\n", " ">> }

Brackets == { <<"[", "1", "]">>, <<"[", " ", "]">> }

Groups ==
    { <<"{", "}">>,
      <<"{", "1", "}">>,
      <<"{", "{", "1", "}", "}">>,
      <<"{", "1", "\\", "\\", " ", "(", "2", ")", "}">>,
      <<"{", "\\hspace", "*", "{", "1", "}", "1", " ", "said", ":", " ", "2", "}">> }

Posts == { << >>, <<"1", "}">> }

\* \Verse sep [ref] sep {SA} sep {EN} post
Invocations ==
    { MacroName \o s1 \o b \o g1 \o s3 \o g2 \o post :
        s1 \in Seps,
        b \in { << >> } \cup { br \o s2 : br \in Brackets, s2 \in Seps },
        g1 \in Groups, s3 \in Seps, g2 \in Groups, post \in Posts }

\* an invocation inside the first argument of a failed one
NestedInvocations ==
    { MacroName \o <<"{">> \o MacroName \o g1 \o g2 \o <<"}">> \o post :
        g1 \in Groups, g2 \in Groups, post \in { << >>, <<"1">>, <<" ", "{", "}">> } }

VerseInputs ==
    RawTexts
      \cup { pre \o MacroName \o r : pre \in { << >>, <<"1">> }, r \in RawTexts }
      \cup Invocations \cup NestedInvocations

IdleVerse ==
    /\ tex = << >> /\ i = 0 /\ n = 0 /\ out = << >> /\ pc = "idle" /\ iters = 0

NoCall == [raised |-> FALSE, val |-> << >>, next |-> -1]

IdleBrace ==
    /\ arg_s = << >> /\ arg_i = 0 /\ arg_ret = NoCall

IdleRef ==
    /\ v_ref = << >> /\ v_en = << >> /\ v_norm = << >>
    /\ v_once = << >> /\ v_twice = << >> /\ v_stage = "idle"

IdleLabel ==
    /\ docs = << >> /\ used_labels = {} /\ doc_idx = 0
    /\ inserted_labels = << >> /\ collected = {} /\ lab_pc = "idle"

IdleFile ==
    /\ util = "none" /\ files = << >> /\ f_idx = 0
    /\ handled = {} /\ skipped = {} /\ main_pc = "idle"

IdleFoot ==
    /\ ftex = << >> /\ fi = 0 /\ fout = << >>
    /\ counter_idx = 0 /\ fblocks = << >> /\ fpc = "idle"

InitVerse ==
    /\ tex \in VerseInputs
    /\ i = 0
    /\ n = 0
    /\ out = << >>
    /\ pc = "scan"
    /\ iters = 0
    /\ IdleBrace /\ IdleRef /\ IdleLabel /\ IdleFile /\ IdleFoot

NextVerse ==
    \/ CopyLiteral
    \/ VerseNotInvocation
    \/ VerseMalformed
    \/ VerseConvert
    \/ VerseRaise
    \/ ReturnContent

SpecVerse == InitVerse /\ [][NextVerse]_vars

(* ---------------- one call of parse_braced_arg ---------------- *)

MaxBraceLen == 5

BraceTexts == SeqsUpTo({"{", "}", "1"}, MaxBraceLen)

InitBrace ==
    /\ arg_s \in BraceTexts
    /\ arg_i \in 0..MaxBraceLen
    /\ arg_ret = NoCall
    /\ IdleVerse /\ IdleRef /\ IdleLabel /\ IdleFile /\ IdleFoot

CallParseBracedArg ==
    /\ arg_ret = NoCall
    /\ arg_ret' = parse_braced_arg(arg_s, arg_i)
    /\ UNCHANGED <<arg_s, arg_i>>
    /\ UNCHANGED nonBrace

NextBrace == CallParseBracedArg

SpecBrace == InitBrace /\ [][NextBrace]_vars

(* ---------------- format_verse_block on one translation ---------------- *)

MaxEnLen == 4

EnTexts == SeqsUpTo({"1", ".", "-", "(", ")", " ", "a"}, MaxEnLen)

Refs == { <<"1">>, <<"1", ".", "2">>, <<"2", "-", "1">>, <<" ", "2", " ">>,
          <<"a">>, <<"1", "a">>, <<" ">>, << >> }

InitRef ==
    /\ v_en \in EnTexts
    /\ v_ref \in Refs
    /\ v_norm = << >> /\ v_once = << >> /\ v_twice = << >>
    /\ v_stage = "start"
    /\ IdleVerse /\ IdleBrace /\ IdleLabel /\ IdleFile /\ IdleFoot

\* format_verse_block lines 159, 163-164: ref stripped, the English argument
\* normalised, the reference appended
FormatTranslation ==
    /\ v_stage = "start"
    /\ v_norm' = normalize_english(v_en)
    /\ v_once' = append_ref_to_translation(normalize_english(v_en), Strip(v_ref))
    /\ v_stage' = "once"
    /\ UNCHANGED <<v_ref, v_en, v_twice>>
    /\ UNCHANGED nonRef

\* append_ref_to_translation applied to its own result with the same ref
AppendRefAgain ==
    /\ v_stage = "once"
    /\ v_twice' = append_ref_to_translation(v_once, Strip(v_ref))
    /\ v_stage' = "twice"
    /\ UNCHANGED <<v_ref, v_en, v_norm, v_once>>
    /\ UNCHANGED nonRef

NextRef == FormatTranslation \/ AppendRefAgain

SpecRef == InitRef /\ [][NextRef]_vars

(* ---------------- add_labels_to_secs.py ---------------- *)
(* A label is a sequence of characters.  A document is the sequence of its *)
(* headings as HEADING_RE.finditer meets them: the command, the title      *)
(* (group 4) and the label find_existing_label_ahead sees after the        *)
(* heading, << >> when there is none.  "Uuml" is the letter U with         *)
(* diaeresis, "szlig" the sharp s, "comb" a combining mark.                *)

\* PREFIX
PREFIX(cmd) ==
    CASE cmd = "chapter" -> <<"c", "h", "a", "p">>
      [] cmd = "section" -> <<"s", "e", "c">>
      [] cmd = "subsection" -> <<"s", "u", "b", "s", "e", "c">>
      [] cmd = "subsubsection" -> <<"s", "u", "b", "s", "u", "b", "s", "e", "c">>
      [] OTHER -> <<"s", "e", "c">>

\* unicodedata.normalize("NFKD", ch)
Nfkd(ch) == IF ch = "Uuml" THEN <<"U", "comb">> ELSE <<ch>>

IsAscii(ch) == ch \notin {"Uuml", "szlig", "comb"}

Lower(ch) == IF ch = "A" THEN "a" ELSE IF ch = "U" THEN "u" ELSE ch

IsSlugChar(ch) == ch \in {"a", "u", "x", "0", "1", "2", "3"}

RECURSIVE NfkdAll(_)
NfkdAll(s) == IF s = << >> THEN << >> ELSE Nfkd(Head(s)) \o NfkdAll(Tail(s))

\* re.sub(r"[^a-z0-9]+", "-", s): each run of other characters becomes one "-"
RECURSIVE Hyphenate(_, _)
Hyphenate(s, inRun) ==
    IF s = << >> THEN << >>
    ELSE IF IsSlugChar(Head(s)) THEN <<Head(s)>> \o Hyphenate(Tail(s), FALSE)
    ELSE IF inRun THEN Hyphenate(Tail(s), TRUE)
    ELSE <<"-">> \o Hyphenate(Tail(s), TRUE)

\* str.strip("-")
RECURSIVE StripHyphens(_)
StripHyphens(s) ==
    IF s # << >> /\ Head(s) = "-" THEN StripHyphens(Tail(s))
    ELSE IF s # << >> /\ s[Len(s)] = "-" THEN StripHyphens(SubSeq(s, 1, Len(s) - 1))
    ELSE s

\* slugify(text)
slugify(text) ==
    LET ascii == SelectSeq(NfkdAll(text), IsAscii)
        lower == [k \in 1..Len(ascii) |-> Lower(ascii[k])]
        slug == StripHyphens(Hyphenate(lower, FALSE))
    IN IF slug = << >> THEN <<"x">> ELSE slug

DigitChars == <<"0", "1", "2", "3", "4", "5", "6", "7", "8", "9">>

\* the decimal digits an f-string writes for k
RECURSIVE Dec(_)
Dec(k) ==
    IF k < 10 THEN <<DigitChars[k + 1]>>
    ELSE Dec(k \div 10) \o <<DigitChars[(k % 10) + 1]>>

\* f"{base}-{i}"
Candidate(base, k) == base \o <<"-">> \o Dec(k)

\* mutant of unique_label: the chosen label is not added to the set
unique_label_not_recorded(base, used) ==
    LET free == CHOOSE c \in 2..(Cardinality(used) + 2) :
                    /\ Candidate(base, c) \notin used
                    /\ \A m \in 2..(c - 1) : Candidate(base, m) \in used
    IN IF base \notin used THEN [label |-> base, used |-> used]
       ELSE [label |-> Candidate(base, free), used |-> used]

\* the while loop of unique_label from i = k
RECURSIVE UniqueLoop(_, _, _)
UniqueLoop(base, used, k) ==
    IF Candidate(base, k) \notin used
    THEN [label |-> Candidate(base, k), used |-> used \cup {Candidate(base, k)}]
    ELSE UniqueLoop(base, used, k + 1)

\* unique_label(base, used): the label and the set as the call leaves it
unique_label(base, used) ==
    IF base \notin used THEN [label |-> base, used |-> used \cup {base}]
    ELSE UniqueLoop(base, used, 2)

\* f"{prefix}-{slugify(title)}" for a heading
BaseLabel(h) == PREFIX(h.cmd) \o <<"-">> \o slugify(Strip(h.title))

\* process_text(text, used_labels) from heading k on: the text with the
\* labels inserted, the [base, label] pairs inserted, and the set
RECURSIVE ProcessHeadings(_, _, _)
ProcessHeadings(hs, k, used) ==
    IF k > Len(hs) THEN [text |-> << >>, ins |-> << >>, used |-> used]
    ELSE IF hs[k].label # << >>
         THEN LET rest == ProcessHeadings(hs, k + 1, used)
              IN [rest EXCEPT !.text = <<hs[k]>> \o rest.text]
    ELSE LET u == unique_label(BaseLabel(hs[k]), used)
             rest == ProcessHeadings(hs, k + 1, u.used)
         IN [text |-> <<[hs[k] EXCEPT !.label = u.label]>> \o rest.text,
             ins |-> <<[base |-> BaseLabel(hs[k]), label |-> u.label]>> \o rest.ins,
             used |-> rest.used]

process_text(text, used) == ProcessHeadings(text, 1, used)

\* collect_existing_labels(root)
collect_existing_labels(ds) ==
    UNION { { ds[d][k].label : k \in 1..Len(ds[d]) } : d \in 1..Len(ds) } \ { << >> }

MaxDocs == 2

MaxHeadings == 2

HeadingChoices ==
    { [cmd |-> "section", title |-> <<"Uuml", "a">>, label |-> << >>],
      [cmd |-> "section", title |-> <<" ", "U", "A", "-">>, label |-> << >>],
      [cmd |-> "section", title |-> <<"Uuml", "a", " ", "2">>, label |-> << >>],
      [cmd |-> "section", title |-> <<"a">>,
       label |-> <<"s", "e", "c", "-", "u", "a">>],
      [cmd |-> "chapter", title |-> <<"szlig">>,
       label |-> <<"s", "e", "c", "-", "u", "a", "-", "2">>] }

InitLabel ==
    /\ docs \in SeqsUpTo(SeqsUpTo(HeadingChoices, MaxHeadings), MaxDocs)
    /\ used_labels = {}
    /\ doc_idx = 1
    /\ inserted_labels = << >>
    /\ collected = {}
    /\ lab_pc = "collect"
    /\ IdleVerse /\ IdleBrace /\ IdleRef /\ IdleFile /\ IdleFoot

\* main line 136
CollectExistingLabels ==
    /\ lab_pc = "collect"
    /\ used_labels' = collect_existing_labels(docs)
    /\ collected' = collect_existing_labels(docs)
    /\ lab_pc' = "process"
    /\ UNCHANGED <<docs, doc_idx, inserted_labels>>
    /\ UNCHANGED nonLabel

\* main lines 141-154 for one path: process_text, and the file written when
\* labels were inserted
ProcessDocument ==
    /\ lab_pc = "process" /\ doc_idx <= Len(docs)
    /\ LET r == process_text(docs[doc_idx], used_labels)
       IN /\ used_labels' = r.used
          /\ docs' = IF Len(r.ins) > 0 /\ r.text # docs[doc_idx]
                     THEN [docs EXCEPT ![doc_idx] = r.text] ELSE docs
          /\ inserted_labels' =
                 inserted_labels \o [k \in 1..Len(r.ins) |->
                     [doc |-> doc_idx, base |-> r.ins[k].base, label |-> r.ins[k].label]]
    /\ doc_idx' = doc_idx + 1
    /\ UNCHANGED <<collected, lab_pc>>
    /\ UNCHANGED nonLabel

\* main line 156
LabelsDone ==
    /\ lab_pc = "process" /\ doc_idx > Len(docs)
    /\ lab_pc' = "done"
    /\ UNCHANGED <<docs, used_labels, doc_idx, inserted_labels, collected>>
    /\ UNCHANGED nonLabel

NextLabel == CollectExistingLabels \/ ProcessDocument \/ LabelsDone

SpecLabel == InitLabel /\ [][NextLabel]_vars

(* ---------------- the per-file loops of the main functions ---------------- *)
(* A file is readable or not (read_text raises on a missing file, a        *)
(* permission or an encoding error), writable or not (write_text raises),  *)
(* and process_text inserts labels into it or not.                         *)

MaxFiles == 3

FileChoices == [readable : BOOLEAN, writable : BOOLEAN, changed : BOOLEAN]

Utilities == {"convert_verses", "add_labels_to_secs", "convert_footnotes"}

InitFile ==
    /\ util \in Utilities
    /\ files \in SeqsUpTo(FileChoices, MaxFiles)
    /\ f_idx = 1
    /\ handled = {}
    /\ skipped = {}
    /\ main_pc = "loop"
    /\ IdleVerse /\ IdleBrace /\ IdleRef /\ IdleLabel /\ IdleFoot

\* an exception leaves main: the loop is over, the other files untouched
Crash ==
    /\ main_pc' = "crashed"
    /\ UNCHANGED <<f_idx, handled, skipped>>

Completed ==
    /\ handled' = handled \cup {f_idx}
    /\ f_idx' = f_idx + 1
    /\ UNCHANGED <<skipped, main_pc>>

\* convert_verses.main lines 254-267: read_text, convert_content, write_text,
\* none of them guarded
VersesFile ==
    /\ util = "convert_verses"
    /\ main_pc = "loop" /\ f_idx <= Len(files)
    /\ IF files[f_idx].readable /\ files[f_idx].writable THEN Completed ELSE Crash
    /\ UNCHANGED <<util, files>>
    /\ UNCHANGED nonFile

\* add_labels_to_secs.main lines 141-154: the read is guarded ([SKIP]), the
\* write, made only when labels were inserted, is not
LabelsFile ==
    /\ util = "add_labels_to_secs"
    /\ main_pc = "loop" /\ f_idx <= Len(files)
    /\ IF ~files[f_idx].readable
       THEN /\ skipped' = skipped \cup {f_idx}
            /\ f_idx' = f_idx + 1
            /\ UNCHANGED <<handled, main_pc>>
       ELSE IF files[f_idx].changed /\ ~files[f_idx].writable THEN Crash
       ELSE Completed
    /\ UNCHANGED <<util, files>>
    /\ UNCHANGED nonFile

\* convert_footnotes.main lines 134-142: read_text, convert, write_text,
\* none of them guarded
FootnotesFile ==
    /\ util = "convert_footnotes"
    /\ main_pc = "loop" /\ f_idx <= Len(files)
    /\ IF files[f_idx].readable /\ files[f_idx].writable THEN Completed ELSE Crash
    /\ UNCHANGED <<util, files>>
    /\ UNCHANGED nonFile

\* the loop is exhausted and the summary is printed
MainFinished ==
    /\ main_pc = "loop" /\ f_idx > Len(files)
    /\ main_pc' = "done"
    /\ UNCHANGED <<util, files, f_idx, handled, skipped>>
    /\ UNCHANGED nonFile

NextFile == VersesFile \/ LabelsFile \/ FootnotesFile \/ MainFinished

SpecFile == InitFile /\ [][NextFile]_vars

(* ---------------- convert_footnotes.py ---------------- *)
(* The command names \begin{customquote}, \end{customquote},               *)
(* \footnotemark and \footnotetext are one element each; offsets count     *)
(* elements.                                                               *)

BEGIN_QUOTE == "\\begin{customquote}"

END_QUOTE == "\\end{customquote}"

FOOTNOTEMARK == "\\footnotemark"

FOOTNOTETEXT == "\\footnotetext"

\* the while loop of extract_braced: cursor j, nesting depth
RECURSIVE ExtractLoop(_, _, _, _)
ExtractLoop(text, start, j, depth) ==
    IF j >= Len(text)
    THEN [raised |-> TRUE, val |-> << >>, next |-> start]
    ELSE IF At(text, j) = "{" THEN ExtractLoop(text, start, j + 1, depth + 1)
    ELSE IF At(text, j) = "}"
         THEN IF depth - 1 = 0
              THEN [raised |-> FALSE, val |-> Slice(text, start + 1, j), next |-> j + 1]
              ELSE ExtractLoop(text, start, j + 1, depth - 1)
    ELSE ExtractLoop(text, start, j + 1, depth)

\* extract_braced(text, start)
extract_braced(text, start) ==
    IF start >= Len(text) \/ At(text, start) # "{"
    THEN [raised |-> TRUE, val |-> << >>, next |-> start]
    ELSE ExtractLoop(text, start, start, 0)

\* the inner loop of skip_ws_and_comments: up to the end of the line
RECURSIVE ToLineEnd(_, _)
ToLineEnd(text, k) ==
    IF k < Len(text) /\ At(text, k) # "\n" THEN ToLineEnd(text, k + 1) ELSE k

\* convert_footnotes.skip_ws_and_comments(text, idx)
RECURSIVE skip_ws_and_comments_fn(_, _)
skip_ws_and_comments_fn(text, k) ==
    IF k >= Len(text) THEN k
    ELSE IF IsSpace(At(text, k)) THEN skip_ws_and_comments_fn(text, k + 1)
    ELSE IF At(text, k) = "%" THEN skip_ws_and_comments_fn(text, ToLineEnd(text, k))
    ELSE k

\* lines 80-87: gather the consecutive \footnotetext{...} from offset j.
\* j is where the loop leaves the cursor, also when it breaks at line 84.
RECURSIVE GatherFootnotes(_, _, _)
GatherFootnotes(text, j, acc) ==
    IF j < Len(text) /\ At(text, j) = FOOTNOTETEXT
    THEN LET j1 == skip_ws_and_comments_fn(text, j + 1)
             e == extract_braced(text, j1)
         IN IF j1 >= Len(text) \/ At(text, j1) # "{"
            THEN [raised |-> FALSE, notes |-> acc, j |-> j1]
            ELSE IF e.raised THEN [raised |-> TRUE, notes |-> acc, j |-> j1]
            ELSE GatherFootnotes(text, skip_ws_and_comments_fn(text, e.next),
                                 Append(acc, e.val))
    ELSE [raised |-> FALSE, notes |-> acc, j |-> j]

\* \w of the regex \\footnotemark\b
IsWordChar(ch) == ch \in {"a", "b"}

\* the regex \\footnotemark\b matches at offset k of the block
IsMarkAt(block, k) ==
    /\ At(block, k) = FOOTNOTEMARK
    /\ (k + 1 >= Len(block) \/ ~IsWordChar(At(block, k + 1)))

\* mutant of CounterStart: the counter of the previous block is carried on
CounterCarried(prev) == prev

\* class Counter: idx = 0, executed in every iteration of the scan loop;
\* prev is Counter.idx as the previous block left it
CounterStart(prev) == 0

\* re.sub(r'\\footnotemark\b', replace_scoped, block) from offset k with
\* Counter.idx = idx: the converted text and the final Counter.idx
RECURSIVE ReplaceMarks(_, _, _, _)
ReplaceMarks(block, k, idx, footnotes) ==
    IF k >= Len(block) THEN [text |-> << >>, idx |-> idx]
    ELSE IF IsMarkAt(block, k) /\ idx < Len(footnotes)
         THEN LET rest == ReplaceMarks(block, k + 1, idx + 1, footnotes)
              IN [rest EXCEPT !.text =
                      <<"\\footnote", "{">> \o footnotes[idx + 1] \o <<"}">> \o rest.text]
    ELSE LET rest == ReplaceMarks(block, k + 1, idx, footnotes)
         IN [rest EXCEPT !.text = <<At(block, k)>> \o rest.text]

BlockStart == Find(ftex, BEGIN_QUOTE, fi)

BlockEnd == Find(ftex, END_QUOTE, BlockStart + 1) + 1

\* lines 55-58: no further block, the rest is copied
FootNoBlock ==
    /\ fpc = "scan" /\ fi < Len(ftex)
    /\ BlockStart = -1
    /\ fout' = fout \o Slice(ftex, fi, Len(ftex))
    /\ fpc' = "done"
    /\ UNCHANGED <<ftex, fi, counter_idx, fblocks>>
    /\ UNCHANGED nonFoot

\* lines 61-67: a block that is never closed, the rest is copied
FootUnclosedBlock ==
    /\ fpc = "scan" /\ fi < Len(ftex)
    /\ BlockStart # -1 /\ BlockEnd = 0
    /\ fout' = fout \o Slice(ftex, fi, BlockStart) \o Slice(ftex, BlockStart, Len(ftex))
    /\ fpc' = "done"
    /\ UNCHANGED <<ftex, fi, counter_idx, fblocks>>
    /\ UNCHANGED nonFoot

\* lines 61-115: one block with the \footnotetext groups that follow it
FootConvertBlock ==
    /\ fpc = "scan" /\ fi < Len(ftex)
    /\ BlockStart # -1 /\ BlockEnd # 0
    /\ LET block == Slice(ftex, BlockStart, BlockEnd)
           g == GatherFootnotes(ftex, skip_ws_and_comments_fn(ftex, BlockEnd), << >>)
           r == ReplaceMarks(block, 0, CounterStart(counter_idx), g.notes)
       IN /\ ~g.raised
          /\ fout' = fout \o Slice(ftex, fi, BlockStart) \o r.text
          /\ fi' = g.j
          /\ counter_idx' = r.idx
          /\ fblocks' = Append(fblocks, [block |-> block, block_end |-> BlockEnd,
                                         footnotes |-> g.notes, converted |-> r.text])
    /\ UNCHANGED <<ftex, fpc>>
    /\ UNCHANGED nonFoot

\* line 85: extract_braced raises on an unclosed \footnotetext{ and convert
\* does not catch it
FootRaise ==
    /\ fpc = "scan" /\ fi < Len(ftex)
    /\ BlockStart # -1 /\ BlockEnd # 0
    /\ GatherFootnotes(ftex, skip_ws_and_comments_fn(ftex, BlockEnd), << >>).raised
    /\ fpc' = "raised"
    /\ UNCHANGED <<ftex, fi, fout, counter_idx, fblocks>>
    /\ UNCHANGED nonFoot

\* line 117: the loop condition fails, return ''.join(out)
FootReturn ==
    /\ fpc = "scan" /\ fi >= Len(ftex)
    /\ fpc' = "done"
    /\ UNCHANGED <<ftex, fi, fout, counter_idx, fblocks>>
    /\ UNCHANGED nonFoot

MaxBlocks == 2

QuoteBlocks ==
    { <<BEGIN_QUOTE, END_QUOTE>>,
      <<BEGIN_QUOTE, FOOTNOTEMARK, END_QUOTE>>,
      <<BEGIN_QUOTE, "a", FOOTNOTEMARK, " ", FOOTNOTEMARK, "[", END_QUOTE>>,
      <<BEGIN_QUOTE, FOOTNOTEMARK, "a", FOOTNOTEMARK, END_QUOTE>>,
      <<BEGIN_QUOTE, FOOTNOTEMARK>> }

AfterBlocks ==
    { << >>,
      <<" ", FOOTNOTETEXT, " ", "{", "a", "{", "b", "}", "}", "\n",
        FOOTNOTETEXT, "{", "b", "}", "a">>,
      <<"%", "a", "\n", FOOTNOTETEXT, "%", "\n", "{", "b", "}", " ">>,
      <<FOOTNOTETEXT, "[", "a">>,
      <<FOOTNOTETEXT, "{", "a">>,
      <<"a", FOOTNOTETEXT, "{", "b", "}">> }

RECURSIVE QuoteTexts(_)
QuoteTexts(k) ==
    IF k = 0 THEN { << >> }
    ELSE { b \o a \o t : b \in QuoteBlocks, a \in AfterBlocks, t \in QuoteTexts(k - 1) }

FootInputs ==
    { pre \o t : pre \in { << >>, <<"a", " ">> },
                 t \in UNION { QuoteTexts(k) : k \in 0..MaxBlocks } }

InitFoot ==
    /\ ftex \in FootInputs
    /\ fi = 0
    /\ fout = << >>
    /\ counter_idx = 0
    /\ fblocks = << >>
    /\ fpc = "scan"
    /\ IdleVerse /\ IdleBrace /\ IdleRef /\ IdleLabel /\ IdleFile

NextFoot ==
    \/ FootNoBlock
    \/ FootUnclosedBlock
    \/ FootConvertBlock
    \/ FootRaise
    \/ FootReturn

SpecFoot == InitFoot /\ [][NextFoot]_vars

(* ---------------- claims: definitions shared by the properties ---------------- *)

\* opening minus closing braces among t[k..j]
BraceDepth(t, k, j) ==
    Cardinality({m \in k..j : At(t, m) = "{"})
        - Cardinality({m \in k..j : At(t, m) = "}"})

\* offsets after k at which the depth opened at k is back to 0
Closers(t, k) == {j \in (k + 1)..(Len(t) - 1) : BraceDepth(t, k, j) = 0}

\* the brace group opening at k is balanced
Balanced(t, k) == k >= 0 /\ k < Len(t) /\ At(t, k) = "{" /\ Closers(t, k) # {}

\* the closing brace matching the one at k
MatchingBrace(t, k) ==
    CHOOSE j \in Closers(t, k) : \A j2 \in Closers(t, k) : j <= j2

AllSpace(t, a, b) == \A k \in a..(b - 1) : IsSpace(At(t, k))

\* the first offset >= a that holds no whitespace (Len(t) if none)
FirstNonSpace(t, a) ==
    CHOOSE k \in a..Len(t) : AllSpace(t, a, k) /\ (k = Len(t) \/ ~IsSpace(At(t, k)))

\* a skipper in the words of the specification's section 4.1: whitespace and
\* comments, a comment running from '%' through the end of its line
RECURSIVE SkipWsComments(_, _)
SkipWsComments(t, k) ==
    IF k >= Len(t) THEN k
    ELSE IF IsSpace(At(t, k)) THEN SkipWsComments(t, k + 1)
    ELSE IF At(t, k) = "%"
         THEN LET nl == Find(t, "\n", k)
              IN IF nl = -1 THEN Len(t) ELSE SkipWsComments(t, nl + 1)
    ELSE k

CloseBrackets(t, k) == {j \in (k + 1)..(Len(t) - 1) : At(t, j) = "]"}

FirstCloseBracket(t, k) ==
    CHOOSE j \in CloseBrackets(t, k) : \A j2 \in CloseBrackets(t, k) : j <= j2

IsOpen(t, k) == k >= 0 /\ k < Len(t) /\ At(t, k) = "{"

\* The shape of an occurrence of the macro name at p, for a separator
\* skipper Skip: where the optional bracket, the first and the second
\* argument are looked for (-1: the shape ends before that place).
BracketAt(Skip(_, _), t, p) == Skip(t, p + Len(MacroName))

HasBracket(Skip(_, _), t, p) ==
    LET b == BracketAt(Skip, t, p) IN b < Len(t) /\ At(t, b) = "["

FirstArgAt(Skip(_, _), t, p) ==
    LET b == BracketAt(Skip, t, p)
    IN IF HasBracket(Skip, t, p)
       THEN IF CloseBrackets(t, b) = {} THEN -1
            ELSE Skip(t, FirstCloseBracket(t, b) + 1)
       ELSE b

SecondArgAt(Skip(_, _), t, p) ==
    LET a == FirstArgAt(Skip, t, p)
    IN IF IsOpen(t, a) /\ Balanced(t, a) THEN Skip(t, MatchingBrace(t, a) + 1) ELSE -1

\* macro name, optional closed bracket, two balanced brace groups
WellFormed(Skip(_, _), t, p) ==
    /\ Balanced(t, FirstArgAt(Skip, t, p))
    /\ Balanced(t, SecondArgAt(Skip, t, p))

\* an unclosed bracket, or an unclosed first or second brace group
UnclosedInvocation(t, p) ==
    \/ /\ HasBracket(FirstNonSpace, t, p)
       /\ CloseBrackets(t, BracketAt(FirstNonSpace, t, p)) = {}
    \/ /\ IsOpen(t, FirstArgAt(FirstNonSpace, t, p))
       /\ ~Balanced(t, FirstArgAt(FirstNonSpace, t, p))
    \/ /\ IsOpen(t, SecondArgAt(FirstNonSpace, t, p))
       /\ ~Balanced(t, SecondArgAt(FirstNonSpace, t, p))

\* no opening brace where the first argument is looked for, or a balanced
\* first argument and no opening brace where the second is looked for
FailedInvocation(t, p) ==
    \/ /\ FirstArgAt(FirstNonSpace, t, p) >= 0
       /\ ~IsOpen(t, FirstArgAt(FirstNonSpace, t, p))
    \/ /\ SecondArgAt(FirstNonSpace, t, p) >= 0
       /\ ~IsOpen(t, SecondArgAt(FirstNonSpace, t, p))

\* a '%' stands where the bracket, the first or the second argument is looked for
CommentBetweenParts(t, p) ==
    \E k \in { BracketAt(FirstNonSpace, t, p), FirstArgAt(FirstNonSpace, t, p),
               SecondArgAt(FirstNonSpace, t, p) } :
        k >= 0 /\ k < Len(t) /\ At(t, k) = "%"

EndsWith(s, suf) ==
    Len(suf) <= Len(s) /\ SubSeq(s, Len(s) - Len(suf) + 1, Len(s)) = suf

Paren(r) == <<"(">> \o r \o <<")">>

\* A parenthesised numeric reference read backwards from offset e (exclusive):
\* where the run of digits, the number (digits, optionally .digits) and the
\* range (number, optionally dash number) ending at e start; -1 if there is none.
RECURSIVE DigitsStart(_, _)
DigitsStart(s, e) ==
    IF e > 0 /\ IsDigit(At(s, e - 1)) THEN DigitsStart(s, e - 1) ELSE e

NumberStart(s, e) ==
    LET d == DigitsStart(s, e)
    IN IF d = e THEN -1
       ELSE IF d >= 2 /\ At(s, d - 1) = "." /\ DigitsStart(s, d - 1) < d - 1
            THEN DigitsStart(s, d - 1)
       ELSE d

RangeStart(s, e) ==
    LET m == NumberStart(s, e)
    IN IF m >= 1 /\ At(s, m - 1) \in {"-", "endash"} /\ NumberStart(s, m - 1) # -1
       THEN NumberStart(s, m - 1)
       ELSE m

RECURSIVE SpacesStart(_, _)
SpacesStart(s, e) ==
    IF e > 0 /\ IsSpace(At(s, e - 1)) THEN SpacesStart(s, e - 1) ELSE e

\* s ends (trailing whitespace aside) with a parenthesised numeric reference
\* such as (2), (2.39) or (1.2-1.4), whatever its value
TailIsNumericRef(s) ==
    LET e0 == SpacesStart(s, Len(s))
        e1 == SpacesStart(s, e0 - 1)
        r == RangeStart(s, e1)
        o == SpacesStart(s, r)
    IN /\ e0 >= 1 /\ At(s, e0 - 1) = ")"
       /\ r >= 1
       /\ o >= 1 /\ At(s, o - 1) = "("

RECURSIVE Concat(_)
Concat(ss) == IF ss = << >> THEN << >> ELSE Head(ss) \o Concat(Tail(ss))

\* the contents of the \footnotetext{...} groups that directly follow offset
\* k, whitespace and comments aside
RECURSIVE NotesAfter(_, _)
NotesAfter(t, k) ==
    LET a == SkipWsComments(t, k)
        b == SkipWsComments(t, a + 1)
    IN IF a < Len(t) /\ At(t, a) = FOOTNOTETEXT /\ Balanced(t, b)
       THEN <<Slice(t, b + 1, MatchingBrace(t, b))>>
                \o NotesAfter(t, MatchingBrace(t, b) + 1)
       ELSE << >>

\* how many \footnotemark stand in the block before offset q
MarkRank(block, q) == Cardinality({p \in 0..(q - 1) : IsMarkAt(block, p)})

\* the block with its k-th \footnotemark replaced by \footnote{notes[k]}
\* (k from 0) while k < Len(notes)
MarksReplaced(block, notes) ==
    Concat([q \in 1..Len(block) |->
        IF IsMarkAt(block, q - 1) /\ MarkRank(block, q - 1) < Len(notes)
        THEN <<"\\footnote", "{">> \o notes[MarkRank(block, q - 1) + 1] \o <<"}">>
        ELSE <<block[q]>>])

\* a \footnotetext{...} group stands at offset k, whitespace and comments aside
FootnoteGroupAt(t, k) ==
    LET a == SkipWsComments(t, k)
    IN /\ a < Len(t) /\ At(t, a) = FOOTNOTETEXT
       /\ Balanced(t, SkipWsComments(t, a + 1))

\* the offset after the closing brace of the group at k
FootnoteGroupEnd(t, k) ==
    MatchingBrace(t, SkipWsComments(t, SkipWsComments(t, k) + 1)) + 1

\* the offset after the last of the groups that directly follow offset k
RECURSIVE GroupsEnd(_, _)
GroupsEnd(t, k) ==
    IF FootnoteGroupAt(t, k) THEN GroupsEnd(t, FootnoteGroupEnd(t, k)) ELSE k

\* the whitespace and comments that stand before each of those groups
RECURSIVE SeparatorsKept(_, _)
SeparatorsKept(t, k) ==
    IF FootnoteGroupAt(t, k)
    THEN Slice(t, k, SkipWsComments(t, k)) \o SeparatorsKept(t, FootnoteGroupEnd(t, k))
    ELSE << >>

Contains(s, sub) == \E k \in 0..Len(s) : StartsWith(s, sub, k)

\* the output that loses nothing: from block k of fblocks on, the text from
\* offset from up to the block, the converted block, what stands between the
\* groups after it, and so on to the end of the input
RECURSIVE OutputKeepingAll(_, _)
OutputKeepingAll(k, from) ==
    IF k > Len(fblocks) THEN Slice(ftex, from, Len(ftex))
    ELSE Slice(ftex, from, fblocks[k].block_end - Len(fblocks[k].block))
            \o fblocks[k].converted
            \o SeparatorsKept(ftex, fblocks[k].block_end)
            \o OutputKeepingAll(k + 1, GroupsEnd(ftex, fblocks[k].block_end))

NoMacro(t) == \A p \in 0..Len(t) : ~StartsWith(t, MacroName, p)

ScanningAtMacro == pc = "scan" /\ i < Len(tex) /\ AtMacro

(* ---------------- claims ---------------- *)

\* C1: when \Verse is followed by an unclosed brace group or an unclosed '[',
\* convert_content keeps scanning: it copies the occurrence unchanged and does
\* not count it.  (The code raises ValueError instead.)
C1_UnclosedInvocationIsCopied ==
    [][(ScanningAtMacro /\ UnclosedInvocation(tex, i))
         => (pc' = "scan" /\ out' = Append(out, At(tex, i)) /\ i' = i + 1 /\ n' = n)]_vars

\* C2: for a balanced group at arg_i, parse_braced_arg returns the characters
\* strictly between the brace at arg_i and its matching closing brace (the
\* first offset where the depth is back to 0), and the offset after that brace.
C2_BracedArgIsMatchingGroup ==
    (arg_ret # NoCall /\ Balanced(arg_s, arg_i))
        => LET j == MatchingBrace(arg_s, arg_i)
           IN arg_ret = [raised |-> FALSE,
                         val |-> Slice(arg_s, arg_i + 1, j),
                         next |-> j + 1]

\* a call on a group that holds a nested group
C2_Witness ==
    /\ arg_ret # NoCall /\ ~arg_ret.raised
    /\ \E m \in (arg_i + 1)..(arg_ret.next - 2) : At(arg_s, m) = "}"

\* C3: every iteration of the scan loop that completes moves the cursor
\* forward (by one on a literal copy, past the invocation on a conversion)
\* and never past the end, so the iterations never outnumber the input's
\* characters and the loop ends.
C3_ScanProgresses ==
    [][(iters' = iters + 1)
         => /\ iters' <= Len(tex)
            /\ (pc' = "scan") => (/\ i' > i
                                  /\ i' <= Len(tex)
                                  /\ iters' <= i'
                                  /\ (n' = n) => (i' = i + 1))]_vars

\* a finished scan that converted an invocation in fewer iterations than characters
C3_Witness ==
    /\ pc = "done" /\ n >= 1
    /\ iters > 1 /\ iters < Len(tex)

\* C4: a text without the macro name is returned unchanged with count 0, and
\* whenever the returned count is 0 the returned text is the input.
C4_NoConversionIsIdentity ==
    pc = "done" => /\ NoMacro(tex) => (n = 0)
                   /\ (n = 0) => (out = tex)

\* a returned scan of a non-empty text without the macro name
C4_Witness ==
    /\ pc = "done" /\ NoMacro(tex)
    /\ Len(tex) >= 2 /\ \E k \in 0..(Len(tex) - 1) : IsSpace(At(tex, k))

\* C6 as stated: an invocation whose parts are separated by whitespace and
\* comments is parsed as one invocation and converted.
C6_CommentsAreSkipped ==
    [][(ScanningAtMacro /\ WellFormed(SkipWsComments, tex, i)) => n' = n + 1]_vars

\* C6 amended: only whitespace is skipped between the parts.  An occurrence is
\* converted exactly when its parts are separated by nothing but whitespace,
\* and never when a '%' stands between them.
C6_OnlyWhitespaceIsSkipped ==
    [][ScanningAtMacro
         => /\ (n' = n + 1) <=> WellFormed(FirstNonSpace, tex, i)
            /\ CommentBetweenParts(tex, i) => (n' = n /\ pc' = "scan")]_vars

\* a converted invocation whose parts are separated by whitespace
C6_Witness ==
    /\ pc = "done" /\ n = 1
    /\ StartsWith(tex, MacroName \o <<" ", "[">>, 0)
    /\ \E k \in 0..(Len(tex) - 3) : StartsWith(tex, <<"}", " ", "{">>, k)

\* C7: a failed parse consumes nothing: one character is copied, the scan
\* resumes at the next offset and the count is unchanged.
C7_FailedParseConsumesNothing ==
    [][(ScanningAtMacro /\ FailedInvocation(tex, i))
         => /\ out' = Append(out, At(tex, i))
            /\ i' = i + 1
            /\ n' = n
            /\ pc' = "scan"
            /\ tex' = tex]_vars

\* the outer occurrence failed and was copied character by character; the
\* occurrence inside its first argument was then scanned and converted
C7_Witness ==
    /\ pc = "done" /\ n = 1
    /\ StartsWith(tex, MacroName \o <<"{">> \o MacroName, 0)
    /\ FailedInvocation(tex, 0)
    /\ SubSeq(out, 1, Len(MacroName) + 1) = MacroName \o <<"{">>

\* C9 as stated: with a non-empty reference r the formatted translation ends
\* with "(r)", r is not appended when the translation already ends with
\* "(r)", and appending twice gives the same as appending once.
C9_RefAppendedExactlyOnce ==
    (v_stage = "twice" /\ Strip(v_ref) # << >>)
        => /\ EndsWith(v_once, Paren(Strip(v_ref)))
           /\ EndsWith(v_norm, Paren(Strip(v_ref))) => (v_once = v_norm)
           /\ v_twice = v_once

\* C9 amended: " (r)" is appended unless the translation already ends with a
\* parenthesised numeric reference of any value, and then nothing is
\* appended; when r is itself such a numeric reference, appending twice
\* gives the same as appending once.
C9_RefAppendedUnlessNumericTail ==
    (v_stage = "twice" /\ Strip(v_ref) # << >>)
        => /\ TailIsNumericRef(v_norm) => (v_once = v_norm)
           /\ ~TailIsNumericRef(v_norm)
                 => (v_once = v_norm \o <<" ">> \o Paren(Strip(v_ref)))
           /\ TailIsNumericRef(Paren(Strip(v_ref))) => (v_twice = v_once)

\* a numeric reference was appended to a translation and not appended again
C9_Witness ==
    /\ v_stage = "twice"
    /\ TailIsNumericRef(Paren(Strip(v_ref)))
    /\ v_norm # << >> /\ ~TailIsNumericRef(v_norm)
    /\ v_once = v_norm \o <<" ">> \o Paren(Strip(v_ref))
    /\ v_twice = v_once

\* C5: every label inserted through the shared set is new: distinct from the
\* labels collected before the first document was processed and from every
\* label inserted earlier, in this document or another.  It is the base when
\* the base is free, else base-k for the least k >= 2 that is free, so two
\* documents with the same heading get base and base-2 when both are free.
C5_InsertedLabelsAreUnique ==
    \A a \in 1..Len(inserted_labels) :
        LET e == inserted_labels[a]
            before == collected \cup { inserted_labels[b].label : b \in 1..(a - 1) }
        IN /\ e.label \notin before
           /\ \A b \in 1..Len(inserted_labels) :
                 (a # b) => (inserted_labels[b].label # e.label)
           /\ \/ e.label = e.base
              \/ \E k \in 2..(Cardinality(before) + 2) :
                    /\ e.label = Candidate(e.base, k)
                    /\ e.base \in before
                    /\ \A m \in 2..(k - 1) : Candidate(e.base, m) \in before

\* two documents with a heading of the same title: the first got the base,
\* the second base-2
C5_Witness ==
    /\ lab_pc = "done"
    /\ \E a \in 1..Len(inserted_labels), b \in 1..Len(inserted_labels) :
          /\ inserted_labels[a].doc < inserted_labels[b].doc
          /\ inserted_labels[a].base = inserted_labels[b].base
          /\ inserted_labels[a].label = inserted_labels[a].base
          /\ inserted_labels[b].label = Candidate(inserted_labels[b].base, 2)

\* C8: a file that cannot be read or written is skipped and the other files
\* are still processed: the run never ends on a file's failure, and when it
\* has ended every file that can be read and written was processed.
C8_BadFileDoesNotStopTheOthers ==
    /\ main_pc # "crashed"
    /\ main_pc = "done"
          => \A k \in 1..Len(files) :
                (files[k].readable /\ files[k].writable) => (k \in handled)

\* C10: in every block convert handles, the k-th \footnotemark (k from 0) is
\* replaced by \footnote{c_k}, c_k the content of the k-th \footnotetext{...}
\* directly after the block; the count starts at 0 in every block, and the
\* marks beyond the collected footnotetexts stay as they are.
C10_MarksTakeFollowingTexts ==
    \A k \in 1..Len(fblocks) :
        /\ fblocks[k].footnotes = NotesAfter(ftex, fblocks[k].block_end)
        /\ fblocks[k].converted = MarksReplaced(fblocks[k].block, fblocks[k].footnotes)

\* two blocks, each with a mark replaced, the second with a mark left over
C10_Witness ==
    /\ fpc = "done" /\ Len(fblocks) = 2
    /\ fblocks[1].footnotes # << >> /\ fblocks[1].converted # fblocks[1].block
    /\ fblocks[2].footnotes # << >> /\ fblocks[2].converted # fblocks[2].block
    /\ \E q \in 1..Len(fblocks[2].converted) : fblocks[2].converted[q] = FOOTNOTEMARK

\* C11: convert loses nothing.  In the returned text every character outside
\* the blocks and outside the \footnotetext{...} groups taken from after them
\* stands unchanged and in order, and the content of every group taken is in
\* its block as \footnote{...}, however many \footnotemark the block holds.
C11_NoContentLost ==
    fpc = "done"
        => /\ fout = OutputKeepingAll(1, 0)
           /\ \A k \in 1..Len(fblocks) :
                 \A m \in 1..Len(fblocks[k].footnotes) :
                    Contains(fblocks[k].converted,
                             <<"\\footnote", "{">> \o fblocks[k].footnotes[m] \o <<"}">>)

====
